---- MODULE Spec2Model ----
(***************************************************************************)
(* A model of brainglobe_atlasapi/core.py: the Atlas class (construction,  *)
(* the lazily loaded volumes, coordinate queries, the structure accessors  *)
(* and get_structure_mask) and AdditionalRefDict, the lazily loading       *)
(* dictionary of secondary references.                                     *)
(*                                                                         *)
(* Python values are tagged records [t |-> kind, v |-> payload]: an int, a *)
(* str, a list, None, a path, a volume, or a raised exception ("exc").     *)
(***************************************************************************)
EXTENDS Integers, Sequences, FiniteSets, TLC

VARIABLES
    pc,                     \* "new" before Atlas.__init__ ran, "ready" after
    metadata,               \* metadata.json as read by read_json
    front_ax_idx,           \* self.space.axes_order.index("frontal")
    structures_list,        \* structures.json: the list of structure records
    files,                  \* external storage: file name -> volume
    _reference,             \* self._reference
    _annotation,            \* self._annotation
    _hemispheres,           \* self._hemispheres
    additional_references,  \* self.additional_references (or NoAttr)
    reads,                  \* file name -> number of read_tiff calls so far
    call,                   \* the last operation called, with its arguments
    ret,                    \* what it returned, or the exception it raised
    warns                   \* the warnings it emitted

vars == <<pc, metadata, front_ax_idx, structures_list, files, _reference,
          _annotation, _hemispheres, additional_references, reads, call,
          ret, warns>>

----------------------------------------------------------------------------
(* Bounds of the model.                                                    *)

\* Voxels of the volumes of the query specifications (shape <<MaxVoxels,1,1>>).
MaxVoxels == 2
\* Largest extent of an axis in the hemisphere specification.
MaxDim == 3
\* Longest list of structure keys handed to an accessor.
MaxKeys == 2
\* read_tiff calls per file after which no further operation is started.
MaxReads == 2

----------------------------------------------------------------------------
(* Python values.                                                          *)

I(n) == [t |-> "int", v |-> n]
S(s) == [t |-> "str", v |-> s]
L(items) == [t |-> "list", v |-> items]
P(id) == [t |-> "path", v |-> id]          \* root_dir / meshes / "<id>.obj"
Vol(f) == [t |-> "vol", v |-> f]           \* a numpy array: voxel -> value
Exc(name) == [t |-> "exc", v |-> name]     \* a raised exception
None == [t |-> "None", v |-> 0]
IsExc(x) == x.t = "exc"

\* The result of a list comprehension over results: the first exception
\* raised, or the list of the results.
Collect(results) ==
    IF \E i \in 1..Len(results) : IsExc(results[i])
    THEN results[CHOOSE i \in 1..Len(results) :
                    /\ IsExc(results[i])
                    /\ \A j \in 1..(i - 1) : ~IsExc(results[j])]
    ELSE L(results)

----------------------------------------------------------------------------
(* The structure catalog.                                                  *)

Ids == {7, 8, 9}
IdOrder == <<7, 8, 9>>
AcronymOf == (7 :> "aa") @@ (8 :> "bb") @@ (9 :> "cc")

\* Sequences over Ids without repetition, of length 1..Cardinality(Ids).
InjSeqs ==
    {s \in UNION {[1..n -> Ids] : n \in 1..Cardinality(Ids)} :
        \A i, j \in 1..Len(s) : i # j => s[i] # s[j]}

\* A structure record; mesh_filename is added by Atlas.__init__.
Record(id, path) ==
    [id |-> id, acronym |-> AcronymOf[id], structure_id_path |-> path,
     mesh_filename |-> id]

\* Catalogs whose paths are chains of known ids ending in the own id.
Catalogs ==
    {[i \in 1..Len(IdOrder) |-> Record(IdOrder[i], paths[IdOrder[i]])] :
        paths \in {p \in [Ids -> InjSeqs] :
                      \A id \in Ids : p[id][Len(p[id])] = id}}

\* Catalogs that describe a tree: the path of a structure is the path of its
\* parent followed by its own id.
IsForest(cat) ==
    \A i \in 1..Len(cat) :
        LET p == cat[i].structure_id_path IN
        Len(p) > 1 =>
            \E j \in 1..Len(cat) :
                cat[j].structure_id_path = SubSeq(p, 1, Len(p) - 1)

ForestCatalogs == {cat \in Catalogs : IsForest(cat)}

\* StructuresDict.__getitem__: a structure by id or by acronym.
Lookup(key) ==
    LET hit == {i \in 1..Len(structures_list) :
                   \/ key.t = "int" /\ structures_list[i].id = key.v
                   \/ key.t = "str" /\ structures_list[i].acronym = key.v}
    IN  IF key.t \notin {"int", "str"} THEN Exc("TypeError")
        ELSE IF hit = {} THEN Exc("KeyError")
        ELSE [t |-> "struct", v |-> structures_list[CHOOSE i \in hit : TRUE]]

\* StructuresDict.keys(): the ids, in the order of the list.
StructureKeys == [i \in 1..Len(structures_list) |-> I(structures_list[i].id)]

\* Structure.__getitem__: one attribute of a record, as a Python value.
Attr(rec, key) ==
    CASE key = "id" -> I(rec.id)
      [] key = "acronym" -> S(rec.acronym)
      [] key = "structure_id_path" ->
            L([i \in 1..Len(rec.structure_id_path) |->
                  I(rec.structure_id_path[i])])
      [] key = "mesh_filename" -> P(rec.mesh_filename)
      [] OTHER -> Exc("KeyError")

Attrs == {"id", "acronym", "structure_id_path", "mesh_filename"}

----------------------------------------------------------------------------
(* The structure accessors of Atlas.                                       *)

\* A faulty variant: the loop over a list stops one key short.
RECURSIVE _get_from_structure_short(_, _)
_get_from_structure_short(structure, key) ==
    IF structure.t = "list"
    THEN Collect([i \in 1..(Len(structure.v) - 1) |->
                     _get_from_structure_short(structure.v[i], key)])
    ELSE LET d == Lookup(structure) IN
         IF IsExc(d) THEN d ELSE Attr(d.v, key)

RECURSIVE _get_from_structure(_, _)
_get_from_structure(structure, key) ==
    IF structure.t = "list"
    THEN Collect([i \in 1..Len(structure.v) |->
                     _get_from_structure(structure.v[i], key)])
    ELSE LET d == Lookup(structure) IN
         IF IsExc(d) THEN d ELSE Attr(d.v, key)

meshfile_from_structure(structure) ==
    _get_from_structure(structure, "mesh_filename")

\* list[:-1]
AllButLast(items) ==
    IF Len(items) = 0 THEN items ELSE SubSeq(items, 1, Len(items) - 1)

get_structure_ancestors(structure) ==
    LET p == _get_from_structure(structure, "structure_id_path") IN
    IF IsExc(p) THEN p
    ELSE IF p.t # "list" THEN Exc("TypeError")
    ELSE _get_from_structure(L(AllButLast(p.v)), "acronym")

\* x in list
In(x, list) == \E i \in 1..Len(list.v) : list.v[i] = x

RECURSIVE DescendantsScan(_, _, _)
\* The loop of get_structure_descendants over keys[i..]: the acronyms
\* appended, or the first exception raised.
DescendantsScan(structure, keys, i) ==
    IF i > Len(keys) THEN L(<<>>)
    ELSE LET anc == get_structure_ancestors(keys[i]) IN
         IF IsExc(anc) THEN anc
         ELSE LET rest == DescendantsScan(structure, keys, i + 1) IN
              IF ~In(structure, anc) THEN rest
              ELSE LET a == _get_from_structure(keys[i], "acronym") IN
                   IF IsExc(a) THEN a
                   ELSE IF IsExc(rest) THEN rest
                   ELSE L(<<a>> \o rest.v)

\* A faulty variant: the structure is counted among its own descendants.
get_structure_descendants_with_self(structure) ==
    LET acr == _get_from_structure(structure, "acronym")
        scan == DescendantsScan(acr, StructureKeys, 1)
    IN  IF IsExc(acr) THEN acr
        ELSE IF IsExc(scan) THEN scan
        ELSE L(<<acr>> \o scan.v)

get_structure_descendants(structure) ==
    LET acr == _get_from_structure(structure, "acronym") IN
    IF IsExc(acr) THEN acr
    ELSE DescendantsScan(acr, StructureKeys, 1)

----------------------------------------------------------------------------
(* Volumes and external storage.                                           *)

LEFT_HEMI_VAL == 1
RIGHT_HEMI_VAL == 2

\* The indices of an array of the given shape.
Voxels(extent) ==
    {<<i, j, k>> : i \in 0..(extent[1] - 1), j \in 0..(extent[2] - 1),
                   k \in 0..(extent[3] - 1)}

\* The names of the secondary references a caller may ask for.
RefNames == {"ref1", "ref2"}
VolumeFiles == {"reference", "annotation", "hemispheres"}
FileNames == VolumeFiles \cup RefNames

\* read_tiff(path): the volume stored under the name.
read_tiff(name) == Vol(files[name])

\* metadata["shape"], metadata["resolution"]
shape == metadata.shape
resolution == metadata.resolution

----------------------------------------------------------------------------
(* The lazily loaded properties of Atlas.  Each gives the value the        *)
(* property returns (and leaves in its cache) and the number of read_tiff  *)
(* calls the access makes.                                                 *)

reference ==
    IF _reference = None
    THEN [value |-> read_tiff("reference"), nreads |-> 1]
    ELSE [value |-> _reference, nreads |-> 0]

\* A faulty variant: the annotation is read on every access.
annotation_uncached == [value |-> read_tiff("annotation"), nreads |-> 1]

annotation ==
    IF _annotation = None
    THEN [value |-> read_tiff("annotation"), nreads |-> 1]
    ELSE [value |-> _annotation, nreads |-> 0]

\* A faulty variant: the split at the middle of the axis.
SplitIndex_half(extent) == extent \div 2

\* The index from which the frontal axis is filled with LEFT_HEMI_VAL.
SplitIndex(extent) == extent \div 2 + 1

\* The block generated for a symmetric atlas.
SymmetricStack ==
    [x \in Voxels(shape) |->
        IF x[front_ax_idx + 1] >= SplitIndex(shape[front_ax_idx + 1])
        THEN LEFT_HEMI_VAL ELSE RIGHT_HEMI_VAL]

hemispheres ==
    IF _hemispheres = None
    THEN IF metadata.symmetric
         THEN [value |-> Vol(SymmetricStack), nreads |-> 0]
         ELSE [value |-> read_tiff("hemispheres"), nreads |-> 1]
    ELSE [value |-> _hemispheres, nreads |-> 0]

\* The property of the given name.
Prop(name) ==
    CASE name = "reference" -> reference
      [] name = "annotation" -> annotation
      [] name = "hemispheres" -> hemispheres

\* The outcome of a method: what it returns or raises, and the lazily
\* loaded properties it accessed on the way.
Out(value, touched) == [ret |-> value, touched |-> touched]

----------------------------------------------------------------------------
(* Coordinate queries.                                                     *)

\* int(c / res) for an integer c: truncation toward zero.
TruncDiv(c, res) == IF c >= 0 THEN c \div res ELSE -((-c) \div res)

_idx_from_coords(coords, microns) ==
    IF microns
    THEN [i \in 1..3 |-> TruncDiv(coords[i], resolution[i])]
    ELSE coords

\* array[idx] for an index without negative entries.
At(vol, idx) ==
    IF idx \in DOMAIN vol.v THEN I(vol.v[idx]) ELSE Exc("IndexError")

\* ["left", "right"][hem - 1].  A label other than 1 or 2 makes the index
\* -1 or out of range, depending on how numpy's unsigned scalar subtracts.
HemisphereName(hem) ==
    CASE hem = LEFT_HEMI_VAL -> {S("left")}
      [] hem = RIGHT_HEMI_VAL -> {S("right")}
      [] hem = 0 -> {S("right"), Exc("IndexError")}
      [] OTHER -> {Exc("IndexError")}

\* The set of possible outcomes of hemisphere_from_coords.
hemisphere_from_coords(coords, microns, as_string) ==
    LET hem == At(hemispheres.value, _idx_from_coords(coords, microns)) IN
    IF IsExc(hem) \/ ~as_string THEN {Out(hem, {"hemispheres"})}
    ELSE {Out(h, {"hemispheres"}) : h \in HemisphereName(hem.v)}

\* list[i] with Python's negative indices.
ListItem(items, i) ==
    IF 0 <= i /\ i < Len(items) THEN items[i + 1]
    ELSE IF -Len(items) <= i /\ i < 0 THEN items[Len(items) + i + 1]
    ELSE Exc("IndexError")

structure_from_coords(coords, microns, as_acronym, hierarchy_lev, key_error_string) ==
    LET rid0 == At(annotation.value, _idx_from_coords(coords, microns))
        d0 == Lookup(rid0)
        rid == IF hierarchy_lev = None \/ IsExc(rid0) THEN rid0
               ELSE IF IsExc(d0) THEN d0
               ELSE ListItem(Attr(d0.v, "structure_id_path").v,
                             hierarchy_lev.v)
        d == Lookup(rid)
    IN  IF IsExc(rid) THEN Out(rid, {"annotation"})
        ELSE IF ~as_acronym THEN Out(rid, {"annotation"})
        ELSE IF IsExc(d)
             THEN IF d = Exc("KeyError")
                  THEN Out(key_error_string, {"annotation"})
                  ELSE Out(d, {"annotation"})
             ELSE Out(Attr(d.v, "acronym"), {"annotation"})

----------------------------------------------------------------------------
(* get_structure_mask.                                                     *)

\* mask_stack[np.isin(self.annotation, descendant_ids)] = structure_id
MaskStack(ann, descendant_ids, structure_id) ==
    [x \in DOMAIN ann |-> IF ann[x] \in descendant_ids THEN structure_id
                          ELSE 0]

\* mask_stack[self.hemispheres == value] = 0
ZeroWhere(mask_stack, hemi, value) ==
    [x \in DOMAIN mask_stack |-> IF hemi[x] = value THEN 0
                                 ELSE mask_stack[x]]

\* A faulty variant: the two hemispheres exchanged.
HemisphereFilter_swapped(mask_stack, hemisphere) ==
    IF hemisphere = 0 THEN Out(Vol(mask_stack), {"annotation"})
    ELSE IF hemisphere = -1
    THEN Out(Vol(ZeroWhere(mask_stack, hemispheres.value.v, LEFT_HEMI_VAL)),
             {"annotation", "hemispheres"})
    ELSE IF hemisphere = 1
    THEN Out(Vol(ZeroWhere(mask_stack, hemispheres.value.v, RIGHT_HEMI_VAL)),
             {"annotation", "hemispheres"})
    ELSE Out(Exc("ValueError"), {"annotation"})

\* A faulty variant: any other value filters nothing.
HemisphereFilter_lenient(mask_stack, hemisphere) ==
    IF hemisphere = -1
    THEN Out(Vol(ZeroWhere(mask_stack, hemispheres.value.v, RIGHT_HEMI_VAL)),
             {"annotation", "hemispheres"})
    ELSE IF hemisphere = 1
    THEN Out(Vol(ZeroWhere(mask_stack, hemispheres.value.v, LEFT_HEMI_VAL)),
             {"annotation", "hemispheres"})
    ELSE Out(Vol(mask_stack), {"annotation"})

\* The branch on the hemisphere argument, for a mask already filled.
HemisphereFilter(mask_stack, hemisphere) ==
    IF hemisphere = 0 THEN Out(Vol(mask_stack), {"annotation"})
    ELSE IF hemisphere = -1
    THEN Out(Vol(ZeroWhere(mask_stack, hemispheres.value.v, RIGHT_HEMI_VAL)),
             {"annotation", "hemispheres"})
    ELSE IF hemisphere = 1
    THEN Out(Vol(ZeroWhere(mask_stack, hemispheres.value.v, LEFT_HEMI_VAL)),
             {"annotation", "hemispheres"})
    ELSE Out(Exc("ValueError"), {"annotation"})

get_structure_mask(structure, hemisphere) ==
    LET d == Lookup(structure)
        descendants == get_structure_descendants(structure)
        ids == Collect([i \in 1..Len(descendants.v) |->
                           LET s == Lookup(descendants.v[i]) IN
                           IF IsExc(s) THEN s ELSE I(s.v.id)])
    IN  IF IsExc(d) THEN Out(d, {})
        ELSE IF IsExc(descendants) THEN Out(descendants, {})
        ELSE IF IsExc(ids) THEN Out(ids, {})
        ELSE HemisphereFilter(
                 MaskStack(annotation.value.v,
                           {ids.v[i].v : i \in 1..Len(ids.v)} \cup {d.v.id},
                           d.v.id),
                 hemisphere)

----------------------------------------------------------------------------
(* AdditionalRefDict.                                                      *)

\* The dictionary as built by AdditionalRefDict.__init__: no key yet.  A
\* name that is no key of self.data maps to None.
AdditionalRefDict(references_list) ==
    [set |-> TRUE, references_list |-> references_list,
     data |-> [n \in RefNames |-> None]]

\* The attribute additional_references, while nothing was assigned to it.
NoAttr ==
    [set |-> FALSE, references_list |-> {}, data |-> [n \in RefNames |-> None]]

\* A faulty variant: a listed name is read on every lookup.
AdditionalRefDict_getitem_uncached(store, ref_name) ==
    IF ref_name \notin store.references_list
    THEN [ret |-> None, data |-> store.data, read |-> {},
          warns |-> {"No reference named"}]
    ELSE [ret |-> read_tiff(ref_name),
          data |-> [store.data EXCEPT ![ref_name] = read_tiff(ref_name)],
          read |-> {ref_name}, warns |-> {}]

\* A faulty variant: a name that is not listed raises KeyError.
AdditionalRefDict_getitem_strict(store, ref_name) ==
    IF store.data[ref_name] = None
    THEN IF ref_name \notin store.references_list
         THEN [ret |-> Exc("KeyError"), data |-> store.data, read |-> {},
               warns |-> {}]
         ELSE [ret |-> read_tiff(ref_name),
               data |-> [store.data EXCEPT ![ref_name] = read_tiff(ref_name)],
               read |-> {ref_name}, warns |-> {}]
    ELSE [ret |-> store.data[ref_name], data |-> store.data, read |-> {},
          warns |-> {}]

\* AdditionalRefDict.__getitem__: what it returns, self.data afterwards, the
\* files it reads and the warnings it emits.
AdditionalRefDict_getitem(store, ref_name) ==
    IF store.data[ref_name] = None
    THEN IF ref_name \notin store.references_list
         THEN [ret |-> None, data |-> store.data, read |-> {},
               warns |-> {"No reference named"}]
         ELSE [ret |-> read_tiff(ref_name),
               data |-> [store.data EXCEPT ![ref_name] = read_tiff(ref_name)],
               read |-> {ref_name}, warns |-> {}]
    ELSE [ret |-> store.data[ref_name], data |-> store.data, read |-> {},
          warns |-> {}]

----------------------------------------------------------------------------
(* Atlas.__init__.                                                         *)

\* An attribute before __init__ assigned it.
Unset == [t |-> "unset", v |-> 0]

\* The attributes __init__ leaves behind and the warnings it emits, for the
\* metadata md.
Constructed(md) ==
    IF md.additional_references.present
    THEN [additional_references |->
              AdditionalRefDict(md.additional_references.names),
          warns |-> {}]
    ELSE [additional_references |-> NoAttr,
          warns |-> {"no additional_references list is found in metadata"}]

B(b) == [t |-> "bool", v |-> b]
C(coords) == [t |-> "coords", v |-> coords]

AtlasInit ==
    /\ pc = "new"
    /\ pc' = "ready"
    /\ _reference' = None
    /\ additional_references' = Constructed(metadata).additional_references
    /\ warns' = Constructed(metadata).warns
    /\ _annotation' = None
    /\ _hemispheres' = None
    /\ call' = [op |-> "__init__", args |-> <<>>]
    /\ ret' = None
    /\ UNCHANGED <<metadata, front_ax_idx, structures_list, files, reads>>

----------------------------------------------------------------------------
(* The operations of a constructed Atlas.                                  *)

\* An operation starts on a constructed atlas (and, to keep the read
\* counters finite, while no file was read MaxReads times).
CanStart == pc = "ready" /\ \A f \in FileNames : reads[f] < MaxReads

\* The effect of accessing the lazily loaded properties in touched.
Touch(touched) ==
    /\ _reference' = IF "reference" \in touched THEN reference.value
                     ELSE _reference
    /\ _annotation' = IF "annotation" \in touched THEN annotation.value
                      ELSE _annotation
    /\ _hemispheres' = IF "hemispheres" \in touched THEN hemispheres.value
                       ELSE _hemispheres
    /\ reads' = [f \in FileNames |->
                    reads[f] + IF f \in touched THEN Prop(f).nreads ELSE 0]

\* A method of Atlas that ends with the outcome out.
Do(op, args, out) ==
    /\ CanStart
    /\ call' = [op |-> op, args |-> args]
    /\ ret' = out.ret
    /\ warns' = {}
    /\ Touch(out.touched)
    /\ UNCHANGED <<pc, metadata, front_ax_idx, structures_list, files,
                   additional_references>>

Reference == Do("reference", <<>>, Out(reference.value, {"reference"}))

Annotation == Do("annotation", <<>>, Out(annotation.value, {"annotation"}))

Hemispheres ==
    Do("hemispheres", <<>>, Out(hemispheres.value, {"hemispheres"}))

HemisphereFromCoords(coords, microns, as_string) ==
    /\ CanStart
    /\ \E out \in hemisphere_from_coords(coords, microns, as_string) :
           Do("hemisphere_from_coords",
              <<C(coords), B(microns), B(as_string)>>, out)

StructureFromCoords(coords, microns, as_acronym, hierarchy_lev, key_error_string) ==
    Do("structure_from_coords",
       <<C(coords), B(microns), B(as_acronym), hierarchy_lev,
         key_error_string>>,
       structure_from_coords(coords, microns, as_acronym, hierarchy_lev,
                             key_error_string))

GetStructureMask(structure, hemisphere) ==
    Do("get_structure_mask", <<structure, I(hemisphere)>>,
       get_structure_mask(structure, hemisphere))

GetFromStructure(structure, key) ==
    Do("_get_from_structure", <<structure, S(key)>>,
       Out(_get_from_structure(structure, key), {}))

MeshfileFromStructure(structure) ==
    Do("meshfile_from_structure", <<structure>>,
       Out(meshfile_from_structure(structure), {}))

GetStructureAncestors(structure) ==
    Do("get_structure_ancestors", <<structure>>,
       Out(get_structure_ancestors(structure), {}))

GetStructureDescendants(structure) ==
    Do("get_structure_descendants", <<structure>>,
       Out(get_structure_descendants(structure), {}))

\* atlas.additional_references[ref_name]
AdditionalReferencesGetItem(ref_name) ==
    /\ CanStart
    /\ call' = [op |-> "additional_references", args |-> <<S(ref_name)>>]
    /\ IF ~additional_references.set
       THEN /\ ret' = Exc("AttributeError")
            /\ warns' = {}
            /\ UNCHANGED <<additional_references, reads>>
       ELSE LET r == AdditionalRefDict_getitem(additional_references,
                                               ref_name) IN
            /\ ret' = r.ret
            /\ warns' = r.warns
            /\ additional_references' =
                   [additional_references EXCEPT !.data = r.data]
            /\ reads' = [f \in FileNames |->
                            reads[f] + IF f \in r.read THEN 1 ELSE 0]
    /\ UNCHANGED <<pc, metadata, front_ax_idx, structures_list, files,
                   _reference, _annotation, _hemispheres>>

----------------------------------------------------------------------------
(* Inputs.                                                                 *)

\* metadata["additional_references"]: a list of names, or no such key.
Present(names) == [present |-> TRUE, names |-> names]
Absent == [present |-> FALSE, names |-> {}]

Meta(extent, symmetric, refs) ==
    [shape |-> extent, resolution |-> <<2, 1, 1>>, symmetric |-> symmetric,
     additional_references |-> refs]

\* The volumes in external storage; the reference volumes are told apart by
\* their (constant) content.
Stored(extent, ann, hemi) ==
    [f \in FileNames |->
        CASE f = "annotation" -> ann
          [] f = "hemispheres" -> hemi
          [] f = "reference" -> [x \in Voxels(extent) |-> 50]
          [] f = "ref1" -> [x \in Voxels(extent) |-> 51]
          [] f = "ref2" -> [x \in Voxels(extent) |-> 52]]

\* The hemisphere files considered for an atlas: any labelling with the
\* given labels when the file is read, one file when it never is.
HemisphereFiles(extent, symmetric, labels) ==
    IF symmetric THEN {[x \in Voxels(extent) |-> RIGHT_HEMI_VAL]}
    ELSE [Voxels(extent) -> labels]

\* 7 is the root, 8 its child, 9 the child of 8.
ChainCatalog ==
    <<Record(7, <<7>>), Record(8, <<7, 8>>), Record(9, <<7, 8, 9>>)>>

ValidKeys == {I(id) : id \in Ids} \cup {S(AcronymOf[id]) : id \in Ids}
UnknownKey == I(99)

\* Lists of at most MaxKeys valid keys.
KeyLists == {L(s) : s \in UNION {[1..n -> ValidKeys] : n \in 0..MaxKeys}}

\* Coordinates inside the volume: every voxel, and the last micron.
CoordInputs ==
    {[coords |-> x, microns |-> FALSE] : x \in Voxels(shape)}
    \cup {[coords |-> [i \in 1..3 |-> shape[i] * resolution[i] - 1],
            microns |-> TRUE]}

HierarchyLevs == {None, I(0), I(2)}
HemisphereArgs == {-2, -1, 0, 1, 2}
OutsideAtlas == S("Outside atlas")

\* No operation was called on the atlas yet.
Fresh == call.op = "__init__"

\* The state a constructed atlas is in before its first operation.
Ready ==
    /\ pc = "ready"
    /\ _reference = None
    /\ _annotation = None
    /\ _hemispheres = None
    /\ additional_references = Constructed(metadata).additional_references
    /\ reads = [f \in FileNames |-> 0]
    /\ call = [op |-> "__init__", args |-> <<>>]
    /\ ret = None
    /\ warns = Constructed(metadata).warns

----------------------------------------------------------------------------
(* The atlas from its construction on: the lazily loaded volumes and the   *)
(* secondary references.                                                   *)

FacadeShape == <<2, 1, 1>>
\* One unlabelled voxel (0) and one voxel of structure 8.
FacadeAnnotation == (<<0, 0, 0>> :> 0) @@ (<<1, 0, 0>> :> 8)
FacadeHemispheres ==
    (<<0, 0, 0>> :> RIGHT_HEMI_VAL) @@ (<<1, 0, 0>> :> LEFT_HEMI_VAL)

Init ==
    /\ pc = "new"
    /\ metadata \in {Meta(FacadeShape, s, r) :
                        s \in BOOLEAN,
                        r \in {Absent} \cup {Present(a) : a \in SUBSET RefNames}}
    /\ front_ax_idx = 0
    /\ structures_list = ChainCatalog
    /\ files = Stored(FacadeShape, FacadeAnnotation, FacadeHemispheres)
    /\ _reference = Unset
    /\ _annotation = Unset
    /\ _hemispheres = Unset
    /\ additional_references = NoAttr
    /\ reads = [f \in FileNames |-> 0]
    /\ call = [op |-> "none", args |-> <<>>]
    /\ ret = None
    /\ warns = {}

Next ==
    \/ AtlasInit
    \/ Reference
    \/ Annotation
    \/ Hemispheres
    \/ \E q \in CoordInputs, as_string \in BOOLEAN :
           HemisphereFromCoords(q.coords, q.microns, as_string)
    \/ \E q \in CoordInputs, as_acronym \in BOOLEAN, lev \in HierarchyLevs :
           StructureFromCoords(q.coords, q.microns, as_acronym, lev,
                               OutsideAtlas)
    \/ \E structure \in {I(7), UnknownKey}, hemisphere \in {-1, 0, 1, 2} :
           GetStructureMask(structure, hemisphere)
    \/ \E ref_name \in RefNames : AdditionalReferencesGetItem(ref_name)

Spec == Init /\ [][Next]_vars

----------------------------------------------------------------------------
(* The structure accessors, over every catalog.                            *)

InitCatalog ==
    /\ metadata = Meta(<<1, 1, 1>>, TRUE, Present({}))
    /\ front_ax_idx = 0
    /\ structures_list \in Catalogs
    /\ files = Stored(shape, [x \in Voxels(shape) |-> 0],
                      [x \in Voxels(shape) |-> RIGHT_HEMI_VAL])
    /\ Ready

\* The accessors change nothing and depend on nothing but the catalog and
\* their arguments: each is called on the fresh atlas.
NextCatalog ==
    /\ Fresh
    /\ \E structure \in ValidKeys \cup {UnknownKey} \cup KeyLists :
           \/ \E key \in Attrs : GetFromStructure(structure, key)
           \/ MeshfileFromStructure(structure)
           \/ GetStructureAncestors(structure)
           \/ GetStructureDescendants(structure)

SpecCatalog == InitCatalog /\ [][NextCatalog]_vars

----------------------------------------------------------------------------
(* get_structure_mask, over every tree of structures, annotation volume    *)
(* and hemisphere volume.                                                  *)

AnnotationValues == {0} \cup Ids

InitMask ==
    /\ metadata \in {Meta(<<MaxVoxels, 1, 1>>, s, Present({})) :
                        s \in BOOLEAN}
    /\ front_ax_idx = 0
    /\ structures_list \in ForestCatalogs
    /\ files \in {Stored(shape, ann, hemi) :
                     ann \in [Voxels(shape) -> AnnotationValues],
                     hemi \in HemisphereFiles(shape, metadata.symmetric,
                                 {LEFT_HEMI_VAL, RIGHT_HEMI_VAL})}
    /\ Ready

\* The first call of get_structure_mask on the fresh atlas.
NextMask ==
    /\ Fresh
    /\ \E structure \in ValidKeys \cup {UnknownKey},
          hemisphere \in HemisphereArgs :
           GetStructureMask(structure, hemisphere)

SpecMask == InitMask /\ [][NextMask]_vars

----------------------------------------------------------------------------
(* The hemisphere volume, over every shape and frontal axis.               *)

InitHemi ==
    /\ metadata \in {Meta(<<a, b, c>>, s, Present({})) :
                        a \in 1..MaxDim, b \in 1..MaxDim, c \in 1..MaxDim,
                        s \in BOOLEAN}
    /\ front_ax_idx \in 0..2
    /\ structures_list = ChainCatalog
    /\ files \in {Stored(shape, [x \in Voxels(shape) |-> 0], hemi) :
                     hemi \in IF metadata.symmetric
                              THEN HemisphereFiles(shape, TRUE, {})
                              ELSE {[x \in Voxels(shape) |-> label] :
                                       label \in {LEFT_HEMI_VAL,
                                                  RIGHT_HEMI_VAL}}}
    /\ Ready

NextHemi ==
    \/ Hemispheres
    \/ \E x \in Voxels(shape), as_string \in BOOLEAN :
           HemisphereFromCoords(x, FALSE, as_string)

SpecHemi == InitHemi /\ [][NextHemi]_vars

----------------------------------------------------------------------------
(* What the claims speak of, read off the data.                            *)

KnownIds == {structures_list[i].id : i \in 1..Len(structures_list)}
RecordOf(id) ==
    structures_list[CHOOSE i \in 1..Len(structures_list) :
                        structures_list[i].id = id]

\* The id of the structure a valid key names.
KeyId(key) ==
    IF key.t = "int" THEN key.v
    ELSE CHOOSE id \in KnownIds : RecordOf(id).acronym = key.v

\* The acronyms of the ids of the path of a structure except the last, in
\* path order.
AncestorAcronyms(id) ==
    LET p == RecordOf(id).structure_id_path IN
    [i \in 1..(Len(p) - 1) |-> S(RecordOf(p[i]).acronym)]

Elems(list) == {list.v[i] : i \in 1..Len(list.v)}

\* The ids of the structures that have the structure among their ancestors.
DescendantIds(id) ==
    {s \in KnownIds :
        S(RecordOf(id).acronym) \in Elems(L(AncestorAcronyms(s)))}

\* The hemisphere volume of the atlas.
AtlasHemispheres ==
    IF metadata.symmetric THEN SymmetricStack ELSE files["hemispheres"]

\* The hemisphere labels a filter excludes.
ExcludedLabels(hemisphere) ==
    CASE hemisphere = -1 -> {2}
      [] hemisphere = 1 -> {1}
      [] OTHER -> {}

\* The mask the claim describes.
ExpectedMask(id, hemisphere) ==
    [x \in Voxels(shape) |->
        IF /\ files["annotation"][x] \in {id} \cup DescendantIds(id)
           /\ AtlasHemispheres[x] \notin ExcludedLabels(hemisphere)
        THEN id ELSE 0]

IsMaskCall ==
    /\ call.op = "get_structure_mask"
    /\ call.args[1] \in ValidKeys

\* C1: for a structure given by id or acronym and a hemisphere filter in
\* {-1, 0, 1}, get_structure_mask returns a volume of the atlas shape that is
\* the structure's id where the annotation is the id of the structure or of
\* one of its descendants and the voxel is not on the excluded hemisphere
\* (label 2 for -1, label 1 for 1, none for 0), and 0 everywhere else.
C1_MaskOfSubtree ==
    (IsMaskCall /\ call.args[2].v \in {-1, 0, 1}) =>
        ret = Vol(ExpectedMask(KeyId(call.args[1]), call.args[2].v))

\* A mask asked for by acronym with filter -1 that marks the voxel of a
\* descendant and zeroes a voxel of the subtree on the right hemisphere.
C1_Witness ==
    /\ IsMaskCall
    /\ call.args[1].t = "str"
    /\ call.args[2].v = -1
    /\ ret.t = "vol"
    /\ \E x, y \in Voxels(shape) :
          /\ ret.v[x] = KeyId(call.args[1])
          /\ files["annotation"][x] # KeyId(call.args[1])
          /\ files["annotation"][y] \in DescendantIds(KeyId(call.args[1]))
          /\ AtlasHemispheres[y] = 2
          /\ ret.v[y] = 0

\* C8: for a known structure and a hemisphere filter outside {-1, 0, 1},
\* get_structure_mask raises ValueError and returns no mask.
C8_InvalidFilterRaises ==
    (IsMaskCall /\ call.args[2].v \notin {-1, 0, 1}) =>
        ret = Exc("ValueError")

\* get_structure_mask was called for a known structure with filter 2 and
\* raised.
C8_Witness ==
    /\ IsMaskCall
    /\ call.args[2].v = 2
    /\ ret = Exc("ValueError")

\* C9: for a symmetric atlas the hemisphere volume has the atlas shape, and
\* each voxel is 1 when its index along the frontal axis is at least
\* shape[frontal axis] \div 2 + 1 and 2 otherwise.
C9_SymmetricHemispheres ==
    (metadata.symmetric /\ _hemispheres # None) =>
        /\ _hemispheres.t = "vol"
        /\ DOMAIN _hemispheres.v = Voxels(shape)
        /\ \A x \in Voxels(shape) :
              _hemispheres.v[x] =
                  IF x[front_ax_idx + 1] >= (shape[front_ax_idx + 1] \div 2) + 1
                  THEN 1 ELSE 2
        /\ call.op = "hemispheres" => ret = _hemispheres

\* The hemispheres of a symmetric atlas were generated, with voxels on both
\* sides.
C9_Witness ==
    /\ metadata.symmetric
    /\ call.op = "hemispheres"
    /\ ret.t = "vol"
    /\ \E x, y \in Voxels(shape) : ret.v[x] = 1 /\ ret.v[y] = 2

\* C7: S.acronym is in descendants(P) if and only if P.acronym is in
\* ancestors(S), where ancestors(S) is the acronyms of the ids of S's path
\* except the last, in path order.
C7_DescendantsIffAncestors ==
    /\ (call.op = "get_structure_descendants" /\ call.args[1] \in ValidKeys) =>
          /\ ret.t = "list"
          /\ \A s \in KnownIds :
                S(RecordOf(s).acronym) \in Elems(ret)
                    <=> S(RecordOf(KeyId(call.args[1])).acronym)
                            \in Elems(L(AncestorAcronyms(s)))
    /\ (call.op = "get_structure_ancestors" /\ call.args[1] \in ValidKeys) =>
          ret = L(AncestorAcronyms(KeyId(call.args[1])))

\* The descendants of a root with a child and a grandchild were asked for.
C7_Witness ==
    /\ call.op = "get_structure_descendants"
    /\ call.args[1] \in ValidKeys
    /\ ret.t = "list"
    /\ Len(ret.v) = 2
    /\ \E s \in KnownIds : Len(RecordOf(s).structure_id_path) = 3

\* What an accessor gives for one valid key.
Single(op, key, args) ==
    CASE op = "_get_from_structure" -> Attr(RecordOf(KeyId(key)), args[2].v)
      [] op = "meshfile_from_structure" ->
            Attr(RecordOf(KeyId(key)), "mesh_filename")
      [] op = "get_structure_ancestors" -> get_structure_ancestors(key)
      [] op = "get_structure_descendants" -> get_structure_descendants(key)

\* The last call handed a list of keys to one of the accessors in ops, and
\* the result is the list of the results for each key alone, in order.
FansOut(ops) ==
    (call.op \in ops /\ call.args[1].t = "list") =>
        ret = L([i \in 1..Len(call.args[1].v) |->
                    Single(call.op, call.args[1].v[i], call.args)])

\* C3, as claimed: every structure accessor (mesh path, ancestors,
\* descendants, the attribute getter) called with a sequence of n valid keys
\* returns the n results of the calls with each key alone, in order.
C3_EveryAccessorFansOut ==
    FansOut({"_get_from_structure", "meshfile_from_structure",
             "get_structure_ancestors", "get_structure_descendants"})

\* C3, amended: the mesh path accessor and the attribute getter called with
\* a sequence of n valid keys return the n results of the calls with each
\* key alone, in order.
C3_GettersFanOut ==
    FansOut({"_get_from_structure", "meshfile_from_structure"})

\* The mesh paths of two different structures were asked for in one call.
C3_Witness ==
    /\ call.op = "meshfile_from_structure"
    /\ call.args[1].t = "list"
    /\ Len(call.args[1].v) = 2
    /\ ret.t = "list"
    /\ Len(ret.v) = 2
    /\ ret.v[1] # ret.v[2]

----------------------------------------------------------------------------
(* The claims about the atlas from its construction on.                    *)

\* The id the annotation holds at the coordinates of the last call.
IdAtCoords ==
    files["annotation"][_idx_from_coords(call.args[1].v, call.args[2].v)]

\* C2: structure_from_coords with as_acronym=True, with or without a
\* hierarchy level, never raises KeyError: when the id read from the
\* annotation is no known structure it returns the key_error_string.
C2_AcronymNeverKeyError ==
    (call.op = "structure_from_coords" /\ call.args[3] = B(TRUE)) =>
        /\ ret # Exc("KeyError")
        /\ IdAtCoords \notin KnownIds => ret = call.args[5]

\* C4: with no additional_references key in the metadata, __init__ warns and
\* does not fail, and a lookup in the atlas's additional references
\* afterwards gives None, not an error.
C4_MissingKeyGivesEmptyStore ==
    (pc = "ready" /\ ~metadata.additional_references.present) =>
        /\ call.op = "__init__" => (ret = None /\ warns # {})
        /\ call.op = "additional_references" => ret = None

\* The cache behind a lazily loaded property.
Cache(f) ==
    CASE f = "reference" -> _reference
      [] f = "annotation" -> _annotation
      [] f = "hemispheres" -> _hemispheres

\* The same cache after the step.
CacheAfter(f) ==
    CASE f = "reference" -> _reference'
      [] f = "annotation" -> _annotation'
      [] f = "hemispheres" -> _hemispheres'

\* The step is a lookup in an existing AdditionalRefDict.
LookupStep == call'.op = "additional_references" /\ additional_references.set

\* C5: every listed name is read at most once: the first lookup reads the
\* volume and stores it in self.data, every later lookup returns the stored
\* volume without a read.
C5_ReferenceReadOnce ==
    [][/\ \A n \in RefNames : reads'[n] <= 1
       /\ LookupStep =>
            LET n == call'.args[1].v
                data == additional_references.data
            IN  /\ data[n] # None =>
                      /\ ret' = data[n]
                      /\ reads' = reads
                      /\ additional_references' = additional_references
                /\ (data[n] = None
                        /\ n \in additional_references.references_list) =>
                      /\ ret' = Vol(files[n])
                      /\ additional_references'.data =
                             [data EXCEPT ![n] = Vol(files[n])]
                      /\ reads' = [reads EXCEPT ![n] = 1]]_vars

\* Both references are stored, each read once, and the last lookup returned
\* the stored volume of the first.
C5_Witness ==
    /\ additional_references.set
    /\ call = [op |-> "additional_references", args |-> <<S("ref1")>>]
    /\ ret = Vol(files["ref1"])
    /\ \A n \in RefNames :
          additional_references.data[n] = Vol(files[n]) /\ reads[n] = 1

\* C6: a lookup of a name that is neither stored nor listed warns, returns
\* None, reads nothing and leaves self.data as it was.
C6_UnknownNameGivesNone ==
    [][(/\ LookupStep
        /\ additional_references.data[call'.args[1].v] = None
        /\ call'.args[1].v \notin additional_references.references_list) =>
            /\ ret' = None
            /\ warns' # {}
            /\ reads' = reads
            /\ additional_references' = additional_references]_vars

\* A name that is not listed was looked up in a dictionary that lists and
\* stores another one.
C6_Witness ==
    /\ additional_references.set
    /\ call = [op |-> "additional_references", args |-> <<S("ref2")>>]
    /\ additional_references.references_list = {"ref1"}
    /\ additional_references.data["ref1"] # None
    /\ ret = None
    /\ warns # {}

\* C10: no volume is read by __init__; each of the reference, annotation and
\* hemisphere volumes is read at most once, on the first access, and every
\* later access finds the same volume in the cache.
C10_VolumesReadOnce ==
    [][/\ call'.op = "__init__" => \A f \in FileNames : reads'[f] = 0
       /\ \A f \in VolumeFiles :
            /\ reads'[f] <= 1
            /\ reads'[f] # reads[f] =>
                  /\ Cache(f) = None
                  /\ reads[f] = 0
                  /\ CacheAfter(f) = Vol(files[f])
            /\ Cache(f) \notin {None, Unset} => CacheAfter(f) = Cache(f)
       /\ call'.op \in VolumeFiles => ret' = CacheAfter(call'.op)]_vars

\* The three volumes were read once each, and the last operation, a mask
\* restricted to one hemisphere, used the annotation and the hemispheres.
C10_Witness ==
    /\ \A f \in VolumeFiles : reads[f] = 1 /\ Cache(f) = Vol(files[f])
    /\ call.op = "get_structure_mask"
    /\ call.args[2].v = 1
    /\ ret.t = "vol"

====
